---- MODULE Spec2Model ----
(***************************************************************************)
(* Model of standard-drinker: the DrinkGraph component (BAC simulation     *)
(* engine, soberTimeInfo analytics and render guard), the settings of the  *)
(* App, the DrinksProvider store, ManualCalculator and SmartInput.         *)
(*                                                                         *)
(* Units.  Times are milliseconds, counted from an arbitrary origin.       *)
(* In the engine, standard drinks (standardDrinks, currentNetSD) are       *)
(* counted in 1/60 SD, burn rates in 1/10 SD per hour, the weight in       *)
(* 1/2 kg.  A BAC value is the exact quotient netSD / (w * r), kept as a   *)
(* fraction [num, den] with den > 0 and compared by cross multiplication.  *)
(* In the store, volumeMl is in ml, abv in 1/10 percent and standardDrinks *)
(* in 1/10000000 SD, so that (volumeMl / 1000) * abv * 0.789 is the        *)
(* integer volumeMl * abv * 789.  Arithmetic is exact throughout: the      *)
(* rounding of the code's floating-point numbers is not represented.       *)
(***************************************************************************)
EXTENDS Integers, Sequences, FiniteSets, TLC

VARIABLES
    drinks,             \* prop drinks: Drink[] in storage order
    firstHourBurn,      \* prop firstHourBurn   (1/10 SD per hour)
    subsequentHourBurn, \* prop subsequentHourBurn (1/10 SD per hour)
    weight,             \* prop weight (1/2 kg)
    gender,             \* prop gender
    pc,                 \* position inside one evaluation of DrinkGraph
    currentNetSD,       \* let currentNetSD (1/60 SD)
    currentTime,        \* let currentTime
    timeSinceStart,     \* let timeSinceStart
    steps,              \* let steps
    dataPoints,         \* const dataPoints
    points,             \* result of the points useMemo
    soberTimeInfo,      \* result of the soberTimeInfo useMemo
    output,             \* what DrinkGraph returns: "none" (not yet), "null", "chart"
    firstPoints,        \* the points of the previous evaluation of DrinkGraph
    run,                \* number of the current evaluation of DrinkGraph
    isLoading,          \* DrinksProvider state isLoading
    storage,            \* AsyncStorage under STORAGE_KEY: <<>> or <<the saved list>>
    loadPc,             \* position of loadDrinks: "reading" or "done"
    clearPc,            \* position of clearSession: "idle" or "removing"
    now,                \* Date.now()
    volume,             \* ManualCalculator state volume (ml)
    abv,                \* ManualCalculator state abv (1/10 percent)
    input,              \* SmartInput state input
    smartIsLoading,     \* SmartInput state isLoading
    error,              \* SmartInput state error ("null" when null)
    request             \* the promise of parseDrinkInput(input): its state and value

vars == <<drinks, firstHourBurn, subsequentHourBurn, weight, gender, pc,
          currentNetSD, currentTime, timeSinceStart, steps, dataPoints,
          points, soberTimeInfo, output, firstPoints, run, isLoading, storage,
          loadPc, clearPc, now, volume, abv, input, smartIsLoading, error, request>>

(***************************************************************************)
(* Bounds                                                                  *)
(***************************************************************************)
MaxDrinks == 2
MaxSeriesLen == 4

(***************************************************************************)
(* Fractions                                                               *)
(***************************************************************************)
Frac(n, d) == [num |-> n, den |-> d]
FLt(a, b) == a.num * b.den < b.num * a.den
FLe(a, b) == a.num * b.den <= b.num * a.den
FGt(a, b) == FLt(b, a)
FEq(a, b) == a.num * b.den = b.num * a.den

Abs(x) == IF x < 0 THEN -x ELSE x

(***************************************************************************)
(* Inputs                                                                  *)
(***************************************************************************)
\* Drinks the list is drawn from: the earliest one, one half a second later,
\* one exactly a second later, one exactly on the first step boundary, one
\* ninety minutes later, one with a negative amount and one with none.
DrinkPool ==
    { [id |-> 1, timestamp |-> 1000,    standardDrinks |-> 60],
      [id |-> 2, timestamp |-> 1500,    standardDrinks |-> 90],
      [id |-> 3, timestamp |-> 2000,    standardDrinks |-> 30],
      [id |-> 4, timestamp |-> 601000,  standardDrinks |-> 600],
      [id |-> 5, timestamp |-> 5401000, standardDrinks |-> 120],
      [id |-> 6, timestamp |-> 1000,    standardDrinks |-> -60],
      [id |-> 7, timestamp |-> 1000,    standardDrinks |-> 0] }

Ids(s) == { s[i].id : i \in 1..Len(s) }

\* Lists of at most MaxDrinks distinct drinks of the pool, in any order.
DrinkLists ==
    UNION { { s \in [1..n -> DrinkPool] : Cardinality(Ids(s)) = n } : n \in 0..MaxDrinks }

FirstHourBurns == {0, 20}
SubsequentHourBurns == {0, 10}
Weights == {0, 1, 160}
Genders == {"male", "female"}

(***************************************************************************)
(* points useMemo                                                          *)
(***************************************************************************)
\* Array.prototype.sort with (a, b) => a.timestamp - b.timestamp on a copy:
\* a stable sort by timestamp.
RECURSIVE InsertByTimestamp(_, _)
InsertByTimestamp(s, d) ==
    IF s = <<>> THEN <<d>>
    ELSE IF s[Len(s)].timestamp <= d.timestamp THEN Append(s, d)
    ELSE Append(InsertByTimestamp(SubSeq(s, 1, Len(s) - 1), d), s[Len(s)])

RECURSIVE SortByTimestamp(_)
SortByTimestamp(s) ==
    IF s = <<>> THEN <<>>
    ELSE InsertByTimestamp(SortByTimestamp(SubSeq(s, 1, Len(s) - 1)), s[Len(s)])

\* Variant: the list is used in storage order.
sortedDrinksUnsorted == drinks

sortedDrinks == SortByTimestamp(drinks)

\* Variant: the first drink in storage order, without the sort.
startTimeUnsorted == drinks[1].timestamp

startTime == sortedDrinks[1].timestamp

r == IF gender = "male" THEN 68 ELSE 55

\* Variant: the distribution ratio r left out of the divisor.
toBACNoRatio(netSD) ==
    LET w == IF weight > 0 THEN weight ELSE 2
    IN  Frac(netSD * 10, 3 * w * 100)

\* Variant: every weight below 1 kg replaced by 1 kg.
toBACFloorOne(netSD) ==
    LET w == IF weight > 2 THEN weight ELSE 2
    IN  Frac(netSD * 10, 3 * w * r)

\* netSD / (w * r) with netSD in 1/60 SD, weight in 1/2 kg, r in 1/100:
\* (netSD/60) / ((w/2) * (r/100)) = (netSD * 10) / (3 * w * r).
toBAC(netSD) ==
    LET w == IF weight > 0 THEN weight ELSE 2
    IN  Frac(netSD * 10, 3 * w * r)

stepsInMinutes == 10
stepMs == stepsInMinutes * 60 * 1000
\* (burn / 60) * stepsInMinutes SD, in 1/60 SD, for a burn in 1/10 SD per hour.
stepBurnFirstHour == (firstHourBurn * stepsInMinutes) \div 10
stepBurnSubsequent == (subsequentHourBurn * stepsInMinutes) \div 10

RECURSIVE SumSD(_)
SumSD(s) == IF s = <<>> THEN 0 ELSE SumSD(SubSeq(s, 1, Len(s) - 1)) + s[Len(s)].standardDrinks

IsInitial(d) == Abs(d.timestamp - startTime) < 1000
initialDrinks == SelectSeq(sortedDrinks, IsInitial)

\* Variant: one iteration more.
maxStepsOneMore == (24 * 60) \div 5 + 1

maxSteps == (24 * 60) \div 5

lastDrinkTime == sortedDrinks[Len(sortedDrinks)].timestamp

\* Variant: the interval is closed at its start.
drinksInIntervalClosed(from, to) ==
    SelectSeq(sortedDrinks, LAMBDA d : d.timestamp >= from /\ d.timestamp <= to)

drinksInInterval(from, to) ==
    SelectSeq(sortedDrinks, LAMBDA d : d.timestamp > from /\ d.timestamp <= to)

\* Variant: the step that starts exactly one hour in still uses the first-hour rate.
burnAmountInclusive ==
    IF timeSinceStart <= 60 * 60 * 1000 THEN stepBurnFirstHour ELSE stepBurnSubsequent

burnAmount == IF timeSinceStart < 60 * 60 * 1000 THEN stepBurnFirstHour ELSE stepBurnSubsequent

\* Variant: the clamp at zero left out.
EliminateNoClamp(net, burn) == IF net > 0 THEN net - burn ELSE net

\* if (currentNetSD > 0) { currentNetSD -= burnAmount; if (currentNetSD < 0) currentNetSD = 0; }
Eliminate(net, burn) ==
    IF net > 0 THEN (IF net - burn < 0 THEN 0 ELSE net - burn) ELSE net

SoberBAC == Frac(1, 1000)

\* Variant: the stop does not look at the BAC.
EarlyStopTimeOnly(time, bac) == time > lastDrinkTime

\* Variant: >= in place of > on the time.
EarlyStopInclusive(time, bac) == time >= lastDrinkTime /\ FLe(bac, SoberBAC)

\* if (currentTime > lastDrinkTime && currentBAC <= 0.001) break;
EarlyStop(time, bac) == time > lastDrinkTime /\ FLe(bac, SoberBAC)

NoInfo == [status |-> "none"]
NullInfo == [status |-> "null"]

LoopVars == <<currentNetSD, currentTime, timeSinceStart, steps, dataPoints>>
Props == <<drinks, firstHourBurn, subsequentHourBurn, weight, gender>>
RerunVars == <<firstPoints, run>>
StoreVars == <<isLoading, storage, loadPc, clearPc, now>>
FormVars == <<volume, abv, input, smartIsLoading, error, request>>
OtherVars == <<RerunVars, StoreVars, FormVars>>

\* if (drinks.length === 0) return [];
PointsEmpty ==
    /\ pc = "start"
    /\ Len(drinks) = 0
    /\ points' = <<>>
    /\ pc' = "memo"
    /\ UNCHANGED <<Props, OtherVars, LoopVars, soberTimeInfo, output>>

\* Lines 19-56: sort, absorb the initial drinks, push the first data point.
PointsBegin ==
    /\ pc = "start"
    /\ Len(drinks) # 0
    /\ LET net == SumSD(initialDrinks)
       IN  /\ currentNetSD' = net
           /\ dataPoints' = <<[time |-> startTime, bac |-> toBAC(net)]>>
    /\ currentTime' = startTime
    /\ timeSinceStart' = 0
    /\ steps' = 0
    /\ pc' = "loop"
    /\ UNCHANGED <<Props, OtherVars, points, soberTimeInfo, output>>

\* One iteration of while (steps < maxSteps), lines 58-88.
PointsStep ==
    /\ pc = "loop"
    /\ steps < maxSteps
    /\ LET nextTime == currentTime + stepMs
           absorbed == currentNetSD + SumSD(drinksInInterval(currentTime, nextTime))
           net == Eliminate(absorbed, burnAmount)
           currentBAC == toBAC(net)
           pushed == Append(dataPoints, [time |-> nextTime, bac |-> currentBAC])
       IN  /\ currentNetSD' = net
           /\ dataPoints' = pushed
           /\ IF EarlyStop(currentTime, currentBAC)
              THEN /\ points' = pushed
                   /\ pc' = "memo"
                   /\ UNCHANGED <<currentTime, timeSinceStart, steps>>
              ELSE /\ currentTime' = nextTime
                   /\ timeSinceStart' = timeSinceStart + stepMs
                   /\ steps' = steps + 1
                   /\ UNCHANGED <<points, pc>>
    /\ UNCHANGED <<Props, OtherVars, soberTimeInfo, output>>

\* The loop condition fails: return dataPoints.
PointsReturn ==
    /\ pc = "loop"
    /\ ~(steps < maxSteps)
    /\ points' = dataPoints
    /\ pc' = "memo"
    /\ UNCHANGED <<Props, OtherVars, LoopVars, soberTimeInfo, output>>

(***************************************************************************)
(* soberTimeInfo useMemo                                                   *)
(***************************************************************************)
Threshold == Frac(5, 100)

\* Variant: >= in place of >, the last maximum wins.
RECURSIVE PeakScanLast(_, _, _, _)
PeakScanLast(ps, lo, hi, peakIndex) ==
    IF lo > hi THEN peakIndex
    ELSE IF lo = hi THEN (IF FLe(ps[peakIndex].bac, ps[lo].bac) THEN lo ELSE peakIndex)
    ELSE LET mid == (lo + hi) \div 2
             left == PeakScanLast(ps, lo, mid, peakIndex)
         IN  IF left = peakIndex THEN PeakScanLast(ps, mid + 1, hi, peakIndex)
             ELSE PeakScanLast(ps, mid + 1, hi, left)

\* for (let i = 1; i < points.length; i++) if (points[i].bac > points[peakIndex].bac) peakIndex = i;
\* Indices are 1-based here: the code's index i is i + 1.  PeakScan runs the
\* loop body over the indices lo..hi in increasing order, starting from
\* peakIndex (the range is split in halves to keep the evaluation shallow).
RECURSIVE PeakScan(_, _, _, _)
PeakScan(ps, lo, hi, peakIndex) ==
    IF lo > hi THEN peakIndex
    ELSE IF lo = hi THEN (IF FGt(ps[lo].bac, ps[peakIndex].bac) THEN lo ELSE peakIndex)
    ELSE LET mid == (lo + hi) \div 2
             left == PeakScan(ps, lo, mid, peakIndex)
         \* both branches go on from the index the left half ended with
         IN  IF left = peakIndex THEN PeakScan(ps, mid + 1, hi, peakIndex)
             ELSE PeakScan(ps, mid + 1, hi, left)

PeakIndex(ps) == PeakScan(ps, 2, Len(ps), 1)

\* Variant: < in place of <=.
RECURSIVE CrossingScanStrict(_, _, _)
CrossingScanStrict(ps, lo, hi) ==
    IF lo > hi THEN 0
    ELSE IF lo = hi THEN (IF FLt(ps[lo].bac, Threshold) THEN lo ELSE 0)
    ELSE LET mid == (lo + hi) \div 2
             left == CrossingScanStrict(ps, lo, mid)
         IN  IF left # 0 THEN left ELSE CrossingScanStrict(ps, mid + 1, hi)

\* for (let i = peakIndex; i < points.length; i++) if (points[i].bac <= 0.05) return ...
\* The index of the point returned among lo..hi, 0 when the loop runs off
\* the end (same splitting of the range).
RECURSIVE CrossingScan(_, _, _)
CrossingScan(ps, lo, hi) ==
    IF lo > hi THEN 0
    ELSE IF lo = hi THEN (IF FLe(ps[lo].bac, Threshold) THEN lo ELSE 0)
    ELSE LET mid == (lo + hi) \div 2
             left == CrossingScan(ps, lo, mid)
         IN  IF left # 0 THEN left ELSE CrossingScan(ps, mid + 1, hi)

\* Variant: peak <= 0.05 counts as under.
SoberTimeInfoLe(ps) ==
    IF Len(ps) = 0 THEN NullInfo
    ELSE LET peakIndex == PeakIndex(ps)
             peakBAC == ps[peakIndex].bac
             crossing == CrossingScan(ps, peakIndex, Len(ps))
         IN  IF FLe(peakBAC, Threshold) THEN [status |-> "under", peak |-> peakBAC]
             ELSE IF crossing # 0
                  THEN [status |-> "over", peak |-> peakBAC, time |-> ps[crossing].time]
                  ELSE [status |-> "over", peak |-> peakBAC, time |-> ps[Len(ps)].time,
                        projected |-> TRUE]

\* Variant: the crossing scan starts at the first point instead of the peak.
SoberTimeInfoFromStart(ps) ==
    IF Len(ps) = 0 THEN NullInfo
    ELSE LET peakIndex == PeakIndex(ps)
             peakBAC == ps[peakIndex].bac
             crossing == CrossingScan(ps, 1, Len(ps))
         IN  IF FLt(peakBAC, Threshold) THEN [status |-> "under", peak |-> peakBAC]
             ELSE IF crossing # 0
                  THEN [status |-> "over", peak |-> peakBAC, time |-> ps[crossing].time]
                  ELSE [status |-> "over", peak |-> peakBAC, time |-> ps[Len(ps)].time,
                        projected |-> TRUE]

\* Variant: the crossing scan starts at the point after the peak.
SoberTimeInfoAfterPeak(ps) ==
    IF Len(ps) = 0 THEN NullInfo
    ELSE LET peakIndex == PeakIndex(ps)
             peakBAC == ps[peakIndex].bac
             crossing == CrossingScan(ps, peakIndex + 1, Len(ps))
         IN  IF FLt(peakBAC, Threshold) THEN [status |-> "under", peak |-> peakBAC]
             ELSE IF crossing # 0
                  THEN [status |-> "over", peak |-> peakBAC, time |-> ps[crossing].time]
                  ELSE [status |-> "over", peak |-> peakBAC, time |-> ps[Len(ps)].time,
                        projected |-> TRUE]

SoberTimeInfo(ps) ==
    IF Len(ps) = 0 THEN NullInfo
    ELSE LET peakIndex == PeakIndex(ps)
             peakBAC == ps[peakIndex].bac
             crossing == CrossingScan(ps, peakIndex, Len(ps))
         IN  IF FLt(peakBAC, Threshold) THEN [status |-> "under", peak |-> peakBAC]
             ELSE IF crossing # 0
                  THEN [status |-> "over", peak |-> peakBAC, time |-> ps[crossing].time]
                  ELSE [status |-> "over", peak |-> peakBAC, time |-> ps[Len(ps)].time,
                        projected |-> TRUE]

Analyse ==
    /\ pc = "memo"
    /\ soberTimeInfo' = SoberTimeInfo(points)
    /\ pc' = "render"
    /\ UNCHANGED <<Props, OtherVars, LoopVars, points, output>>

\* Variant: no guard on the length.
RenderedNoGuard(ps) == "chart"

\* if (points.length < 2) return null; otherwise the chart is returned.
Rendered(ps) == IF Len(ps) < 2 THEN "null" ELSE "chart"

Render ==
    /\ pc = "render"
    /\ output' = Rendered(points)
    /\ pc' = "done"
    /\ UNCHANGED <<Props, OtherVars, LoopVars, points, soberTimeInfo>>

(***************************************************************************)
(* Values of the parts that a specification leaves alone                   *)
(***************************************************************************)
\* DrinkGraph not yet evaluated.
GraphIdle ==
    /\ pc = "start"
    /\ currentNetSD = 0
    /\ currentTime = 0
    /\ timeSinceStart = 0
    /\ steps = 0
    /\ dataPoints = <<>>
    /\ points = <<>>
    /\ soberTimeInfo = NoInfo
    /\ output = "none"
    /\ firstPoints = <<>>
    /\ run = 1

\* useState(2), useState(1), useState(80), useState('male')
SettingsInitial ==
    /\ firstHourBurn = 20
    /\ subsequentHourBurn = 10
    /\ weight = 160
    /\ gender = "male"

\* The provider after its load has finished.
StoreIdle ==
    /\ isLoading = FALSE
    /\ storage = <<>>
    /\ loadPc = "done"
    /\ clearPc = "idle"
    /\ now = 0

\* No call of parseDrinkInput has been made.
NoRequest == [state |-> "none", value |-> <<>>]

\* useState(425), useState(4.8); useState(''), useState(false), useState(null)
FormsInitial ==
    /\ volume = 425
    /\ abv = 48
    /\ input = ""
    /\ smartIsLoading = FALSE
    /\ error = "null"
    /\ request = NoRequest

(***************************************************************************)
(* Specification of one evaluation of DrinkGraph                           *)
(***************************************************************************)
Init ==
    /\ drinks \in DrinkLists
    /\ firstHourBurn \in FirstHourBurns
    /\ subsequentHourBurn \in SubsequentHourBurns
    /\ weight \in Weights
    /\ gender \in Genders
    /\ pc = "start"
    /\ currentNetSD = 0
    /\ currentTime = 0
    /\ timeSinceStart = 0
    /\ steps = 0
    /\ dataPoints = <<>>
    /\ points = <<>>
    /\ soberTimeInfo = NoInfo
    /\ output = "none"
    /\ firstPoints = <<>>
    /\ run = 1
    /\ StoreIdle
    /\ FormsInitial

Next ==
    \/ PointsEmpty
    \/ PointsBegin
    \/ PointsStep
    \/ PointsReturn
    \/ Analyse
    \/ Render

Spec == Init /\ [][Next]_vars

(***************************************************************************)
(* Specification of the analytics as a function of an arbitrary series     *)
(***************************************************************************)
BacValues == { Frac(1, 100), Frac(3, 100), Frac(5, 100), Frac(6, 100), Frac(8, 100) }

\* Series of 1..MaxSeriesLen points, ten minutes apart.
SeriesSet ==
    UNION { { [i \in 1..n |-> [time |-> i * stepMs, bac |-> b[i]]] : b \in [1..n -> BacValues] }
            : n \in 1..MaxSeriesLen }

InitAnalytics ==
    /\ drinks = <<>>
    /\ firstHourBurn = 20
    /\ subsequentHourBurn = 10
    /\ weight = 160
    /\ gender = "male"
    /\ pc = "memo"
    /\ currentNetSD = 0
    /\ currentTime = 0
    /\ timeSinceStart = 0
    /\ steps = 0
    /\ dataPoints = <<>>
    /\ points \in SeriesSet
    /\ soberTimeInfo = NoInfo
    /\ output = "none"
    /\ firstPoints = <<>>
    /\ run = 1
    /\ StoreIdle
    /\ FormsInitial

NextAnalytics ==
    \/ Analyse
    \/ Render

SpecAnalytics == InitAnalytics /\ [][NextAnalytics]_vars

(***************************************************************************)
(* Properties of the simulation engine (specification Spec)                *)
(***************************************************************************)
Zero == Frac(0, 1)
NonEmpty == Len(drinks) > 0
AllNonNegative == \A i \in 1..Len(drinks) : drinks[i].standardDrinks >= 0
NoNegativePoint(ps) == \A i \in 1..Len(ps) : FLe(Zero, ps[i].bac)

\* C1: for a non-empty drink list whose drinks all have standardDrinks >= 0,
\* under every weight, sex and burn-rate setting, the running net alcohol is
\* >= 0 after every step and every point of the series has bac >= 0.
C1_NetNeverNegative ==
    (NonEmpty /\ AllNonNegative) =>
        /\ currentNetSD >= 0
        /\ Len(dataPoints) > 0 => FLe(Zero, dataPoints[Len(dataPoints)].bac)
        /\ NoNegativePoint(points)

\* The clamp has acted: the point before the last had a positive net smaller
\* than the first-hour burn of one step, and the last point is at zero.
C1_Witness ==
    /\ NonEmpty /\ AllNonNegative
    /\ pc = "loop"
    /\ Len(dataPoints) \in 2..6
    /\ LET prev == dataPoints[Len(dataPoints) - 1].bac
       IN  prev.num > 0 /\ prev.num < 10 * stepBurnFirstHour
    /\ currentNetSD = 0
    /\ dataPoints[Len(dataPoints)].bac.num = 0

MinTimestamp ==
    CHOOSE t \in { drinks[i].timestamp : i \in 1..Len(drinks) } :
        \A i \in 1..Len(drinks) : t <= drinks[i].timestamp

TenMinutes == 10 * 60 * 1000

TimeMonotonic(ps) ==
    /\ Len(ps) > 0 => ps[1].time = MinTimestamp
    /\ \A i \in 1..(Len(ps) - 1) :
          /\ ps[i].time < ps[i + 1].time
          /\ ps[i + 1].time - ps[i].time = TenMinutes

\* C2: for a non-empty drink list in any storage order the first point's time
\* is the smallest drink timestamp, and the series is strictly increasing in
\* time, consecutive points being exactly 10 minutes apart.
C2_TimeMonotonic ==
    NonEmpty => TimeMonotonic(points)

\* A finished series of a list stored latest drink first.
C2_Witness ==
    /\ pc = "done"
    /\ Len(drinks) = 2
    /\ drinks[1].timestamp > drinks[2].timestamp
    /\ Len(points) > 2
    /\ points[1].time = drinks[2].timestamp

TwentyFourHours == 24 * 60 * 60 * 1000

\* C3: the series never covers more than 24 hours of simulated time: the
\* last point's time minus the first point's time is at most 24 hours.
C3_Within24Hours ==
    Len(dataPoints) > 0 =>
        dataPoints[Len(dataPoints)].time - dataPoints[1].time <= TwentyFourHours

\* Sum of standardDrinks over the drinks of the stored list whose timestamp
\* is less than a second away from the smallest one.
RECURSIVE SumNearStart(_)
SumNearStart(n) ==
    IF n = 0 THEN 0
    ELSE SumNearStart(n - 1) +
         (IF Abs(drinks[n].timestamp - MinTimestamp) < 1000
          THEN drinks[n].standardDrinks ELSE 0)

\* s / (w * r) for s in 1/60 SD and w in 1/2 kg, r = 0.68 or 0.55:
\* (s/60) / ((w/2) * (r/100)) = (s * 200) / (60 * w * r), reduced by 10.
Widmark(s, w, g) == Frac(s * 20, 6 * w * (IF g = "male" THEN 68 ELSE 55))

\* C4: with a positive body weight w, the first point's bac is the sum of
\* standardDrinks of the drinks within 1 second of the earliest timestamp
\* divided by w * r (r = 0.68 male, 0.55 female), no elimination applied; for
\* a single drink of s standard drinks that is s / (w * r).
C4_FirstPoint ==
    (Len(dataPoints) > 0 /\ weight > 0) =>
        /\ FEq(dataPoints[1].bac, Widmark(SumNearStart(Len(drinks)), weight, gender))
        /\ Len(drinks) = 1 =>
              FEq(dataPoints[1].bac, Widmark(drinks[1].standardDrinks, weight, gender))

\* A finished series whose list holds a drink within the first second and a
\* later drink that the first point leaves out.
C4_Witness ==
    /\ pc = "done"
    /\ weight > 0
    /\ Len(drinks) = 2
    /\ \E i, j \in 1..2 :
          /\ drinks[i].timestamp = MinTimestamp
          /\ drinks[i].standardDrinks > 0
          /\ drinks[j].timestamp >= MinTimestamp + 1000
          /\ drinks[j].standardDrinks > 0
          /\ FEq(points[1].bac, Widmark(drinks[i].standardDrinks, weight, gender))

(***************************************************************************)
(* Properties of the analytics (specification SpecAnalytics)               *)
(***************************************************************************)
Analysed == pc \in {"render", "done"}
Limit == Frac(5, 100)

MaxIndices(ps) == { i \in 1..Len(ps) : \A j \in 1..Len(ps) : FLe(ps[j].bac, ps[i].bac) }
FirstMaxIndex(ps) == CHOOSE i \in MaxIndices(ps) : \A j \in MaxIndices(ps) : i <= j
MaxBac(ps) == ps[FirstMaxIndex(ps)].bac

\* Indices at or after the first maximum whose bac is <= 0.05.
AtOrBelowAfterPeak(ps) == { i \in FirstMaxIndex(ps)..Len(ps) : FLe(ps[i].bac, Limit) }
Least(S) == CHOOSE i \in S : \A j \in S : i <= j

HasProjected == "projected" \in DOMAIN soberTimeInfo
HasTime == "time" \in DOMAIN soberTimeInfo

\* C5: on a non-empty series the analytics reports as peak the maximum bac of
\* the series, and the peak index the crossing scan starts from is the first
\* index where that maximum occurs.
C5_PeakIsFirstMaximum ==
    (Analysed /\ Len(points) > 0) =>
        /\ FEq(soberTimeInfo.peak, MaxBac(points))
        /\ PeakIndex(points) = FirstMaxIndex(points)

\* An analysed series whose maximum occurs twice, not at the first point.
C5_Witness ==
    /\ Analysed
    /\ Cardinality(MaxIndices(points)) = 2
    /\ FirstMaxIndex(points) = 2
    /\ soberTimeInfo.peak = Frac(8, 100)

\* C6: the status is under-threshold, with no crossing time and no projected
\* flag, exactly when the maximum bac of the series is strictly below 0.05;
\* when the maximum is >= 0.05 the status is over-threshold.
C6_UnderIffPeakBelow ==
    (Analysed /\ Len(points) > 0) =>
        /\ (soberTimeInfo.status = "under") <=> FLt(MaxBac(points), Limit)
        /\ soberTimeInfo.status = "under" => (~HasTime /\ ~HasProjected)
        /\ FLe(Limit, MaxBac(points)) => soberTimeInfo.status = "over"

\* The series [0.01, 0.03, 0.03] analysed as under-threshold.
C6_Witness ==
    /\ Analysed
    /\ Len(points) = 3
    /\ points[1].bac = Frac(1, 100)
    /\ points[2].bac = Frac(3, 100)
    /\ points[3].bac = Frac(3, 100)
    /\ soberTimeInfo = [status |-> "under", peak |-> Frac(3, 100)]

\* C7: when the peak is >= 0.05 and some point at or after the peak index has
\* bac <= 0.05, the result is over-threshold, not projected, with crossing
\* time the time of the first such point, all points from the peak index up
\* to it having bac > 0.05.
C7_CrossingIsFirstAtOrBelow ==
    (Analysed /\ Len(points) > 0 /\ FLe(Limit, MaxBac(points))
        /\ AtOrBelowAfterPeak(points) # {}) =>
        LET c == Least(AtOrBelowAfterPeak(points))
        IN  /\ soberTimeInfo.status = "over"
            /\ ~HasProjected
            /\ HasTime
            /\ soberTimeInfo.time = points[c].time
            /\ \A i \in FirstMaxIndex(points)..(c - 1) : FGt(points[i].bac, Limit)

\* The series [0.01, 0.08, 0.06, 0.03]: the crossing is the fourth point.
C7_Witness ==
    /\ Analysed
    /\ Len(points) = 4
    /\ points[1].bac = Frac(1, 100)
    /\ points[2].bac = Frac(8, 100)
    /\ points[3].bac = Frac(6, 100)
    /\ points[4].bac = Frac(3, 100)
    /\ soberTimeInfo = [status |-> "over", peak |-> Frac(8, 100), time |-> points[4].time]

\* C8: projected is set exactly when the peak is >= 0.05 and no point from
\* the peak index to the end has bac <= 0.05; the result is then
\* over-threshold with crossing time the last point's time.
C8_ProjectedIffNoCrossing ==
    (Analysed /\ Len(points) > 0) =>
        /\ HasProjected <=>
              (FLe(Limit, MaxBac(points)) /\ AtOrBelowAfterPeak(points) = {})
        /\ HasProjected =>
              /\ soberTimeInfo.projected = TRUE
              /\ soberTimeInfo.status = "over"
              /\ soberTimeInfo.time = points[Len(points)].time

\* A series that dips to 0.05 before its peak and stays above it afterwards.
C8_Witness ==
    /\ Analysed
    /\ Len(points) = 3
    /\ points[1].bac = Frac(5, 100)
    /\ points[2].bac = Frac(8, 100)
    /\ points[3].bac = Frac(6, 100)
    /\ HasProjected
    /\ soberTimeInfo.time = points[3].time

(***************************************************************************)
(* End-to-end properties of the component (specification Spec)             *)
(***************************************************************************)
\* C9: for a series produced by the engine, projected = true only when the
\* loop ran out of steps (the series has 289 points and the early stop did
\* not fire); a series ended by the early stop yields under-threshold or a
\* real, non-projected crossing.
C9_ProjectedOnlyAtStepCap ==
    (Analysed /\ NonEmpty) =>
        /\ HasProjected => (steps = 288 /\ Len(points) = 289)
        /\ steps < 288 =>
              \/ soberTimeInfo.status = "under"
              \/ (soberTimeInfo.status = "over" /\ HasTime /\ ~HasProjected)

\* A rendered series that used all 288 steps and is reported as projected.
C9_Witness ==
    /\ pc = "done"
    /\ NonEmpty
    /\ steps = 288
    /\ Len(points) = 289
    /\ HasProjected
    /\ soberTimeInfo.time = points[289].time

\* C10: with zero drinks the series is empty, the analytics yields null and
\* nothing is presented; nothing is presented whenever the series has fewer
\* than 2 points.
C10_NothingForEmpty ==
    /\ (Len(drinks) = 0 /\ pc \in {"memo", "render", "done"}) => points = <<>>
    /\ (Len(drinks) = 0 /\ Analysed) => soberTimeInfo = NullInfo
    /\ Len(points) < 2 => output # "chart"
    /\ (pc = "done" /\ Len(points) < 2) => output = "null"

\* The component evaluated to the end on an empty drink list.
C10_Witness ==
    /\ pc = "done"
    /\ Len(drinks) = 0
    /\ points = <<>>
    /\ soberTimeInfo = NullInfo
    /\ output = "null"

(***************************************************************************)
(* Further properties of the simulation engine (specification Spec)        *)
(***************************************************************************)
\* The bac of the last pushed point is the running net over w * r.
LastBacIs(w) ==
    FEq(dataPoints[Len(dataPoints)].bac, Widmark(currentNetSD, w, gender))

RECURSIVE SumBetween(_, _, _)
SumBetween(n, from, to) ==
    IF n = 0 THEN 0
    ELSE SumBetween(n - 1, from, to) +
         (IF drinks[n].timestamp > from /\ drinks[n].timestamp <= to
          THEN drinks[n].standardDrinks ELSE 0)

SumUpTo(t) == SumBetween(Len(drinks), MinTimestamp - 1, t)

\* C18: every drink is added to the running net at most once, so at every
\* point the running net is at most the sum of standardDrinks of the drinks
\* with timestamp <= that point's time.
C18_AbsorbedOnce ==
    (NonEmpty /\ AllNonNegative /\ pc = "loop") => currentNetSD <= SumUpTo(currentTime)

MaxTimestamp ==
    CHOOSE t \in { drinks[i].timestamp : i \in 1..Len(drinks) } :
        \A i \in 1..Len(drinks) : t >= drinks[i].timestamp

Sober == Frac(1, 1000)

\* C19: in every series with fewer than 289 points the last point has
\* bac <= 0.001 and lies more than 10 minutes after the last drink, and no
\* earlier point whose step started strictly after the last drink has
\* bac <= 0.001.
C19_EarlyStop ==
    (NonEmpty /\ Len(points) > 0 /\ Len(points) < 289) =>
        /\ FLe(points[Len(points)].bac, Sober)
        /\ points[Len(points)].time - MaxTimestamp > TenMinutes
        /\ \A i \in 2..(Len(points) - 1) :
              points[i - 1].time > MaxTimestamp => FGt(points[i].bac, Sober)

\* A series ended by the early stop after the burn took several steps past
\* the last of two drinks taken at different times.
C19_Witness ==
    /\ pc = "done"
    /\ Len(drinks) = 2
    /\ MinTimestamp + TenMinutes < MaxTimestamp
    /\ Len(points) < 289
    /\ points[Len(points)].time - MaxTimestamp > 3 * TenMinutes
    /\ FGt(points[Len(points) - 1].bac, Sober)

OneHour == 60 * 60 * 1000
Max0(x) == IF x < 0 THEN 0 ELSE x

\* The hourly rate (1/10 SD per hour) the claim applies to a step starting at time t.
ApplicableRate(t) == IF t - MinTimestamp < OneHour THEN firstHourBurn ELSE subsequentHourBurn

\* One loop iteration: a point is pushed.
StepTaken == pc = "loop" /\ Len(dataPoints') = Len(dataPoints) + 1

\* A step removes a sixth of the applicable hourly rate from the net after
\* absorption, clamped at zero; the steps that start less than an hour after
\* the first drink are the first six.  (One sixth of rate/10 SD is rate/60 SD.)
C20_StepBurn ==
    (StepTaken /\ AllNonNegative) =>
        LET absorbed == currentNetSD + SumBetween(Len(drinks), currentTime, currentTime + TenMinutes)
        IN  /\ currentNetSD' = Max0(absorbed - ApplicableRate(currentTime))
            /\ (currentTime - MinTimestamp < OneHour) <=> (steps < 6)

\* After six steps of a single-drink session whose net is still positive,
\* firstHourBurn / 10 SD, that is 6 * firstHourBurn sixtieths, are gone.
C20_FirstHourTotal ==
    (pc = "loop" /\ Len(drinks) = 1 /\ steps = 6 /\ currentNetSD > 0) =>
        drinks[1].standardDrinks - currentNetSD = 6 * firstHourBurn

Reorderings(s) ==
    { [i \in 1..Len(s) |-> s[f[i]]] :
        f \in { g \in [1..Len(s) -> 1..Len(s)] : \A i, j \in 1..Len(s) : g[i] = g[j] => i = j } }

\* DrinkGraph is evaluated again with a drinks prop holding the same drinks
\* in some order: the useMemo of points recomputes (dependency list, line 91).
Reinvoke ==
    /\ pc = "done"
    /\ run = 1
    /\ firstPoints' = points
    /\ run' = 2
    /\ drinks' \in Reorderings(drinks)
    /\ pc' = "start"
    /\ currentNetSD' = 0
    /\ currentTime' = 0
    /\ timeSinceStart' = 0
    /\ steps' = 0
    /\ dataPoints' = <<>>
    /\ soberTimeInfo' = NoInfo
    /\ output' = "none"
    /\ UNCHANGED <<firstHourBurn, subsequentHourBurn, weight, gender, points, StoreVars, FormVars>>

InitTwice ==
    /\ drinks \in DrinkLists
    /\ firstHourBurn \in FirstHourBurns
    /\ subsequentHourBurn \in SubsequentHourBurns
    /\ weight = 160
    /\ gender = "male"
    /\ GraphIdle
    /\ StoreIdle
    /\ FormsInitial

NextTwice ==
    \/ PointsEmpty
    \/ PointsBegin
    \/ PointsStep
    \/ PointsReturn
    \/ Analyse
    \/ Render
    \/ Reinvoke

SpecTwice == InitTwice /\ [][NextTwice]_vars

(***************************************************************************)
(* Settings of the App (src/app/index.tsx)                                 *)
(***************************************************************************)
Min2(a, b) == IF a < b THEN a ELSE b
Max2(a, b) == IF a > b THEN a ELSE b

NaN == [nan |-> TRUE, value |-> 0]
Num(v) == [nan |-> FALSE, value |-> v]

\* Texts typed into a decimal field, and parseFloat of them in tenths.
FloatTexts == {"", "abc", "-1", "0", "2.5", "4", "4.1", "10"}
ParseFloat(text) ==
    CASE text = "-1" -> Num(-10)
      [] text = "0" -> Num(0)
      [] text = "2.5" -> Num(25)
      [] text = "4" -> Num(40)
      [] text = "4.1" -> Num(41)
      [] text = "10" -> Num(100)
      [] OTHER -> NaN

\* Texts typed into a whole-number field, and parseInt of them.
IntTexts == {"", "abc", "-5", "0", "70", "330", "12.7"}
ParseInt(text) ==
    CASE text = "-5" -> Num(-5)
      [] text = "0" -> Num(0)
      [] text = "70" -> Num(70)
      [] text = "330" -> Num(330)
      [] text = "12.7" -> Num(12)
      [] OTHER -> NaN

\* parse(text) || 0
OrZero(p) == IF p.nan \/ p.value = 0 THEN 0 ELSE p.value

GraphVars == <<pc, LoopVars, points, soberTimeInfo, output, RerunVars>>

\* setWeight(Math.max(1, parseInt(text) || 0)), in 1/2 kg
HandleWeightChange ==
    /\ \E text \in IntTexts : weight' = 2 * Max2(1, OrZero(ParseInt(text)))
    /\ UNCHANGED <<drinks, firstHourBurn, subsequentHourBurn, gender, GraphVars, StoreVars, FormVars>>

\* Math.max(0, Math.min(4, num))
ClampFirstHour(num) == Max2(0, Min2(40, num))

\* Variant: the upper limit left out.
ClampSubsequentNoMax(num) == Max2(0, num)

\* Math.max(0, Math.min(3, num))
ClampSubsequent(num) == Max2(0, Min2(30, num))

HandleFirstHourBurnChange ==
    /\ \E text \in FloatTexts : firstHourBurn' = ClampFirstHour(OrZero(ParseFloat(text)))
    /\ UNCHANGED <<drinks, subsequentHourBurn, weight, gender, GraphVars, StoreVars, FormVars>>

HandleSubsequentHourBurnChange ==
    /\ \E text \in FloatTexts : subsequentHourBurn' = ClampSubsequent(OrZero(ParseFloat(text)))
    /\ UNCHANGED <<drinks, firstHourBurn, weight, gender, GraphVars, StoreVars, FormVars>>

\* setFirstHourBurn(Math.max(0, firstHourBurn - 0.5))
FirstHourMinus ==
    /\ firstHourBurn' = Max2(0, firstHourBurn - 5)
    /\ UNCHANGED <<drinks, subsequentHourBurn, weight, gender, GraphVars, StoreVars, FormVars>>

\* setFirstHourBurn(Math.min(4, firstHourBurn + 0.5))
FirstHourPlus ==
    /\ firstHourBurn' = Min2(40, firstHourBurn + 5)
    /\ UNCHANGED <<drinks, subsequentHourBurn, weight, gender, GraphVars, StoreVars, FormVars>>

\* setSubsequentHourBurn(Math.max(0, subsequentHourBurn - 0.1))
SubsequentMinus ==
    /\ subsequentHourBurn' = Max2(0, subsequentHourBurn - 1)
    /\ UNCHANGED <<drinks, firstHourBurn, weight, gender, GraphVars, StoreVars, FormVars>>

\* setSubsequentHourBurn(Math.min(3, subsequentHourBurn + 0.1))
SubsequentPlus ==
    /\ subsequentHourBurn' = Min2(30, subsequentHourBurn + 1)
    /\ UNCHANGED <<drinks, firstHourBurn, weight, gender, GraphVars, StoreVars, FormVars>>

\* setGender('male'), setGender('female')
SetGender ==
    /\ \E g \in Genders : gender' = g
    /\ UNCHANGED <<drinks, firstHourBurn, subsequentHourBurn, weight, GraphVars, StoreVars, FormVars>>

InitSettings ==
    /\ drinks = <<>>
    /\ SettingsInitial
    /\ GraphIdle
    /\ StoreIdle
    /\ FormsInitial

NextSettings ==
    \/ HandleWeightChange
    \/ HandleFirstHourBurnChange
    \/ HandleSubsequentHourBurnChange
    \/ FirstHourMinus
    \/ FirstHourPlus
    \/ SubsequentMinus
    \/ SubsequentPlus
    \/ SetGender

SpecSettings == InitSettings /\ [][NextSettings]_vars

(***************************************************************************)
(* DrinksProvider (src/context/DrinksContext.tsx)                          *)
(*                                                                         *)
(* A stored drink is [id, name, volumeMl, abv, standardDrinks, timestamp]  *)
(* with volumeMl in ml, abv in 1/10 percent, standardDrinks in 1e-7 SD and *)
(* id the pair <<Date.now(), Math.random()>> that the code concatenates.   *)
(* The text under STORAGE_KEY is represented by the list it encodes:       *)
(* JSON.stringify and JSON.parse give back a list of drinks whose fields   *)
(* are strings and finite numbers.                                         *)
(***************************************************************************)
MaxStore == 2
MaxNow == 12
FirstNow == 10

\* The values Math.random() may return.
Randoms == {1, 2}

\* An optional argument that was not passed.
Undefined == 0

\* const std = (volumeMl / 1000) * abv * 0.789
std(volumeMl, abvTenths) == volumeMl * abvTenths * 789

\* const newDrink: Drink = {...}; t is Date.now(), rnd is Math.random()
newDrink(name, volumeMl, abvTenths, timestamp, t, rnd) ==
    [id |-> <<t, rnd>>,
     name |-> name,
     volumeMl |-> volumeMl,
     abv |-> abvTenths,
     standardDrinks |-> std(volumeMl, abvTenths),
     timestamp |-> IF timestamp # Undefined THEN timestamp ELSE t]

\* setDrinks((prevDrinks) => [newDrink, ...prevDrinks])
addDrink(prevDrinks, name, volumeMl, abvTenths, timestamp, t, rnd) ==
    <<newDrink(name, volumeMl, abvTenths, timestamp, t, rnd)>> \o prevDrinks

\* prevDrinks.filter((d) => d.id !== id)
removeDrink(prevDrinks, id) == SelectSeq(prevDrinks, LAMBDA d : d.id # id)

\* Variant: the new timestamp is given to every drink.
updateDrinkTimeAll(prevDrinks, id, newTimestamp) ==
    [i \in 1..Len(prevDrinks) |-> [prevDrinks[i] EXCEPT !.timestamp = newTimestamp]]

\* prevDrinks.map((d) => (d.id === id ? { ...d, timestamp: newTimestamp } : d))
updateDrinkTime(prevDrinks, id, newTimestamp) ==
    [i \in 1..Len(prevDrinks) |->
        IF prevDrinks[i].id = id
        THEN [prevDrinks[i] EXCEPT !.timestamp = newTimestamp]
        ELSE prevDrinks[i]]

\* The save effect after a render with the list and the flag given: it
\* returns at once while loading, and setItem writes the list otherwise.
\* old is the text before the effect.
Saved(list, loading, old) == IF loading THEN old ELSE <<list>>

IdsOf(list) == { list[i].id : i \in 1..Len(list) }
AbsentId == <<0, 0>>
NewTimestamps == {8, 11}

\* Arguments of addDrink.
AddVolumes == {0, 425}
AddAbvs == {0, 48}
AddTimestamps == {Undefined, 7}

\* A drink saved by an earlier session.
StoredDrink == newDrink("Schooner", 425, 48, Undefined, 5, 1)
StoredItems == {<<>>, << <<>> >>, << <<StoredDrink>> >>}

SettingsVars == <<firstHourBurn, subsequentHourBurn, weight, gender>>

\* loadDrinks after getItem has resolved
LoadResolve ==
    /\ loadPc = "reading"
    /\ drinks' = IF storage # <<>> THEN storage[1] ELSE drinks
    /\ isLoading' = FALSE
    /\ loadPc' = "done"
    /\ storage' = Saved(drinks', FALSE, storage)
    /\ UNCHANGED <<SettingsVars, GraphVars, clearPc, now, FormVars>>

\* loadDrinks after getItem has rejected or JSON.parse has thrown
LoadReject ==
    /\ loadPc = "reading"
    /\ isLoading' = FALSE
    /\ loadPc' = "done"
    /\ storage' = Saved(drinks, FALSE, storage)
    /\ UNCHANGED <<drinks, SettingsVars, GraphVars, clearPc, now, FormVars>>

\* removeDrink(drink.id) from the list of the App
RemoveDrink ==
    /\ \E id \in IdsOf(drinks) : drinks' = removeDrink(drinks, id)
    /\ storage' = Saved(drinks', isLoading, storage)
    /\ UNCHANGED <<SettingsVars, GraphVars, isLoading, loadPc, clearPc, now, FormVars>>

UpdateDrinkTimeOf(id, newTimestamp) ==
    /\ drinks' = updateDrinkTime(drinks, id, newTimestamp)
    /\ storage' = Saved(drinks', isLoading, storage)
    /\ UNCHANGED <<SettingsVars, GraphVars, isLoading, loadPc, clearPc, now, FormVars>>

\* updateDrinkTime(editingDrinkId, ...) from the time editor of the App
UpdateDrinkTime ==
    \E id \in IdsOf(drinks) \cup {AbsentId}, newTimestamp \in NewTimestamps :
        UpdateDrinkTimeOf(id, newTimestamp)

\* addDrink(name, volumeMl, abv, timestamp?) at a later millisecond than the
\* event before
AddDrink ==
    /\ now < MaxNow
    /\ Len(drinks) < MaxStore
    /\ now' = now + 1
    /\ \E volumeMl \in AddVolumes, abvTenths \in AddAbvs,
          timestamp \in AddTimestamps, rnd \in Randoms :
        drinks' = addDrink(drinks, "drink", volumeMl, abvTenths, timestamp, now', rnd)
    /\ storage' = Saved(drinks', isLoading, storage)
    /\ UNCHANGED <<SettingsVars, GraphVars, isLoading, loadPc, clearPc, FormVars>>

\* Variant: setDrinks([]) is called before the await.
ClearSessionEager ==
    /\ clearPc = "idle"
    /\ clearPc' = "removing"
    /\ drinks' = <<>>
    /\ storage' = Saved(drinks', isLoading, storage)
    /\ UNCHANGED <<SettingsVars, GraphVars, isLoading, loadPc, now, FormVars>>

\* clearSession up to await AsyncStorage.removeItem(STORAGE_KEY)
ClearSession ==
    /\ clearPc = "idle"
    /\ clearPc' = "removing"
    /\ UNCHANGED <<drinks, SettingsVars, GraphVars, isLoading, storage, loadPc, now, FormVars>>

\* clearSession after removeItem has resolved: setDrinks([])
ClearResolve ==
    /\ clearPc = "removing"
    /\ drinks' = <<>>
    /\ storage' = Saved(drinks', isLoading, <<>>)
    /\ clearPc' = "idle"
    /\ UNCHANGED <<SettingsVars, GraphVars, isLoading, loadPc, now, FormVars>>

\* clearSession after removeItem has rejected: the catch logs
ClearReject ==
    /\ clearPc = "removing"
    /\ clearPc' = "idle"
    /\ UNCHANGED <<drinks, SettingsVars, GraphVars, isLoading, storage, loadPc, now, FormVars>>

\* DrinksProvider mounted: useState([]), useState(true), loadDrinks() called
StoreMounted ==
    /\ drinks = <<>>
    /\ isLoading = TRUE
    /\ loadPc = "reading"
    /\ clearPc = "idle"
    /\ storage \in StoredItems
    /\ now = FirstNow

(***************************************************************************)
(* ManualCalculator (src/components/ManualCalculator.tsx)                  *)
(***************************************************************************)
\* The sizes and strengths of the preset buttons that the source names:
\* "Default to Schooner", "Default to Full Strength".
COMMON_SIZES == {425}
COMMON_ABV == {48}

\* Texts typed into the volume field and into the ABV field.
VolumeTexts == {"", "abc", "330"}
AbvTexts == {"", "abc", "-1"}

\* The name is a function of volume and abv.
generatedName == <<"name", volume, abv>>

SmartVars == <<input, smartIsLoading, error, request>>

\* handleAdd: onAddDrink(generatedName, volume, abv), at a later millisecond
\* than the event before
HandleAdd ==
    /\ now < MaxNow
    /\ Len(drinks) < MaxStore
    /\ now' = now + 1
    /\ \E rnd \in Randoms :
        drinks' = addDrink(drinks, generatedName, volume, abv, Undefined, now', rnd)
    /\ storage' = Saved(drinks', isLoading, storage)
    /\ UNCHANGED <<SettingsVars, GraphVars, isLoading, loadPc, clearPc, FormVars>>

HandleVolumeChange ==
    /\ \E text \in VolumeTexts :
        LET num == ParseInt(text)
        IN  volume' = IF ~num.nan THEN num.value
                      ELSE IF text = "" THEN 0
                      ELSE volume
    /\ UNCHANGED <<drinks, SettingsVars, GraphVars, StoreVars, abv, SmartVars>>

HandleAbvChange ==
    /\ \E text \in AbvTexts :
        LET num == ParseFloat(text)
        IN  abv' = IF ~num.nan THEN num.value
                   ELSE IF text = "" THEN 0
                   ELSE abv
    /\ UNCHANGED <<drinks, SettingsVars, GraphVars, StoreVars, volume, SmartVars>>

\* onPress={() => setVolume(size.volume)}
PresetVolume ==
    /\ \E size \in COMMON_SIZES : volume' = size
    /\ UNCHANGED <<drinks, SettingsVars, GraphVars, StoreVars, abv, SmartVars>>

\* onPress={() => setAbv(item.value)}
PresetAbv ==
    /\ \E item \in COMMON_ABV : abv' = item
    /\ UNCHANGED <<drinks, SettingsVars, GraphVars, StoreVars, volume, SmartVars>>

InitStore ==
    /\ StoreMounted
    /\ SettingsInitial
    /\ GraphIdle
    /\ FormsInitial

NextStore ==
    \/ LoadResolve
    \/ LoadReject
    \/ AddDrink
    \/ RemoveDrink
    \/ UpdateDrinkTime
    \/ ClearSession
    \/ ClearResolve
    \/ ClearReject

SpecStore == InitStore /\ [][NextStore]_vars

NextManual ==
    \/ LoadResolve
    \/ LoadReject
    \/ HandleAdd
    \/ HandleVolumeChange
    \/ HandleAbvChange
    \/ PresetVolume
    \/ PresetAbv

SpecManual == InitStore /\ [][NextManual]_vars

(***************************************************************************)
(* SmartInput (src/unnamed/part_001)                                       *)
(***************************************************************************)
InputTexts == {"", " ", "a pint and a shot"}

\* input.trim()
Trim(text) == IF text = " " THEN "" ELSE text

\* What parseDrinkInput may resolve with: a list of {name, volumeMl, abv}.
Pint == [name |-> "pint", volumeMl |-> 570, abv |-> 42]
Shot == [name |-> "shot", volumeMl |-> 30, abv |-> 400]
ParseResults == {<<>>, <<Pint>>, <<Pint, Shot>>}

CouldNotIdentify == "Could not identify any drinks. Try being more specific."
FailedToProcess == "Failed to process request. Please check your connection."

\* drinks.forEach((d) => onAddDrink(d.name, d.volumeMl, d.abv)) from the
\* i-th element on, all within the millisecond t
RECURSIVE ForEachAdd(_, _, _, _, _)
ForEachAdd(prevDrinks, result, i, t, rnds) ==
    IF i > Len(result)
    THEN prevDrinks
    ELSE ForEachAdd(addDrink(prevDrinks, result[i].name, result[i].volumeMl,
                             result[i].abv, Undefined, t, rnds[i]),
                    result, i + 1, t, rnds)

\* onChangeText={setInput}, editable={!isLoading}
SetInput ==
    /\ ~smartIsLoading
    /\ \E text \in InputTexts : input' = text
    /\ UNCHANGED <<drinks, SettingsVars, GraphVars, StoreVars, volume, abv,
                   smartIsLoading, error, request>>

\* handleSubmit up to await parseDrinkInput(input); the button is disabled
\* while isLoading || !input.trim()
HandleSubmit ==
    /\ ~smartIsLoading
    /\ Trim(input) # ""
    /\ smartIsLoading' = TRUE
    /\ error' = "null"
    /\ request' = [state |-> "pending", value |-> <<>>]
    /\ UNCHANGED <<drinks, SettingsVars, GraphVars, StoreVars, volume, abv, input>>

\* handleSubmit after parseDrinkInput has resolved
ParseFulfil ==
    /\ request.state = "pending"
    /\ now < MaxNow
    /\ now' = now + 1
    /\ \E result \in ParseResults :
        /\ Len(drinks) + Len(result) <= MaxStore
        /\ request' = [state |-> "fulfilled", value |-> result]
        /\ IF Len(result) = 0
           THEN /\ error' = CouldNotIdentify
                /\ UNCHANGED <<drinks, input>>
           ELSE /\ \E rnds \in [1..Len(result) -> Randoms] :
                    drinks' = ForEachAdd(drinks, result, 1, now', rnds)
                /\ input' = ""
                /\ error' = error
    /\ smartIsLoading' = FALSE
    /\ storage' = Saved(drinks', isLoading, storage)
    /\ UNCHANGED <<SettingsVars, GraphVars, isLoading, loadPc, clearPc, volume, abv>>

\* Variant: the finally block left out.
ParseRejectNoFinally ==
    /\ request.state = "pending"
    /\ request' = [state |-> "rejected", value |-> <<>>]
    /\ error' = FailedToProcess
    /\ UNCHANGED <<drinks, SettingsVars, GraphVars, StoreVars, volume, abv, input,
                   smartIsLoading>>

\* handleSubmit after parseDrinkInput has rejected
ParseReject ==
    /\ request.state = "pending"
    /\ request' = [state |-> "rejected", value |-> <<>>]
    /\ error' = FailedToProcess
    /\ smartIsLoading' = FALSE
    /\ UNCHANGED <<drinks, SettingsVars, GraphVars, StoreVars, volume, abv, input>>

InitSmart ==
    /\ StoreMounted
    /\ SettingsInitial
    /\ GraphIdle
    /\ FormsInitial

NextSmart ==
    \/ LoadResolve
    \/ LoadReject
    \/ RemoveDrink
    \/ SetInput
    \/ HandleSubmit
    \/ ParseFulfil
    \/ ParseReject

SpecSmart == InitSmart /\ [][NextSmart]_vars

(***************************************************************************)
(* Properties of repeated evaluation (SpecTwice) and of the settings       *)
(* (SpecSettings)                                                          *)
(***************************************************************************)
\* The second evaluation, on a permutation of the first list, returns the
\* series of the first.
C14_SameSeries == (run = 2 /\ pc \in {"memo", "render", "done"}) => points = firstPoints

\* An evaluation does not change its drinks prop.
C14_InputUnchanged == pc # "done" => drinks' = drinks

\* C14: the series depends only on the set of drinks and the parameters: two
\* invocations with the same parameters on lists that are permutations of
\* each other (the identical list included) give the same series, point for
\* point in time and bac, and an invocation leaves its drink list unchanged.
C14_PermutationInvariant == []C14_SameSeries /\ [][C14_InputUnchanged]_vars

\* A second evaluation finished on a list stored latest drink first, two of
\* its drinks sharing the first step, with the series of the first evaluation.
C14_Witness ==
    /\ run = 2
    /\ pc = "done"
    /\ Len(drinks) = 2
    /\ drinks[1].timestamp > drinks[2].timestamp
    /\ drinks[1].timestamp - drinks[2].timestamp < TenMinutes
    /\ Len(points) > 3
    /\ points = firstPoints

\* C16: starting from firstHourBurn = 2 and subsequentHourBurn = 1, after
\* any sequence of the plus and minus buttons and the text-change handlers
\* firstHourBurn stays within [0, 4] and subsequentHourBurn within [0, 3].
C16_BurnRatesInRange ==
    /\ firstHourBurn >= 0 /\ firstHourBurn <= 4 * 10
    /\ subsequentHourBurn >= 0 /\ subsequentHourBurn <= 3 * 10

\* Both rates driven to a limit: the first-hour rate to 4, the other to 0.
C16_Witness ==
    /\ firstHourBurn = 40
    /\ subsequentHourBurn = 0

(***************************************************************************)
(* Properties of the drink store (SpecStore, SpecManual, SpecSmart)        *)
(***************************************************************************)
\* standardDrinks = (volumeMl / 1000) * abv * 0.789 for every stored drink,
\* in 1e-7 SD with abv in 1/10 percent.
C11_Formula ==
    \A i \in 1..Len(drinks) :
        drinks[i].standardDrinks = drinks[i].volumeMl * drinks[i].abv * 789

SameButTimestamp(d, e) == [d EXCEPT !.timestamp = 0] = [e EXCEPT !.timestamp = 0]

\* A call updateDrinkTime(id, t) keeps the list's length and order, gives
\* the timestamp t to the drinks of that id and leaves every other drink,
\* and every other field, as it was.
C11_UpdateOnlyTimestamp ==
    \A id \in IdsOf(drinks) \cup {AbsentId}, t \in NewTimestamps :
        UpdateDrinkTimeOf(id, t) =>
            /\ Len(drinks') = Len(drinks)
            /\ \A i \in 1..Len(drinks) :
                /\ SameButTimestamp(drinks'[i], drinks[i])
                /\ drinks[i].id = id => drinks'[i].timestamp = t
                /\ drinks[i].id # id => drinks'[i] = drinks[i]

\* C11: after any sequence of addDrink, removeDrink, updateDrinkTime and
\* clearSession every drink in the store has standardDrinks =
\* (volumeMl / 1000) * abv * 0.789 for its own volumeMl and abv, and
\* updateDrinkTime changes only the timestamp of the drink with the given id.
C11_StandardDrinksFrozen == []C11_Formula /\ [][C11_UpdateOnlyTimestamp]_vars

\* Two drinks, one of volume 0 and so of 0 standard drinks, the other with
\* alcohol, exactly one of them moved to the time 8 by updateDrinkTime.
C11_Witness ==
    /\ Len(drinks) = 2
    /\ \E i, j \in 1..2 :
        /\ drinks[i].timestamp = 8
        /\ drinks[i].standardDrinks > 0
        /\ drinks[j].timestamp # 8
        /\ drinks[j].volumeMl = 0
        /\ drinks[j].standardDrinks = 0

\* C12: no two drinks in the store ever share an id, also when several
\* addDrink calls are made in the same millisecond.
C12_UniqueIds ==
    \A i, j \in 1..Len(drinks) : i # j => drinks[i].id # drinks[j].id

\* isLoading of SmartInput is true exactly while a request is in flight.
C15_LoadingWhilePending == smartIsLoading <=> request.state = "pending"

\* The step in which a request completes.
C15_Completion ==
    (request.state = "pending" /\ request'.state # "pending") =>
        /\ ~smartIsLoading'
        /\ (request'.state = "rejected" \/ request'.value = <<>>) =>
              /\ drinks' = drinks
              /\ error' # "null"

\* A step of handleSubmit changes the list only when a non-empty result
\* has arrived.
C15_AddedOnlyOnResult ==
    (request' # request /\ drinks' # drinks) =>
        /\ request.state = "pending"
        /\ request'.state = "fulfilled"
        /\ Len(request'.value) > 0
        /\ Len(drinks') = Len(drinks) + Len(request'.value)

\* C15: when the extraction request fails or returns an empty list,
\* handleSubmit adds no drink, shows an error message and returns isLoading
\* to false; drinks are added only when a non-empty result arrives, and
\* isLoading is false again after every completed submit.
C15_FailureAddsNothing ==
    /\ []C15_LoadingWhilePending
    /\ [][C15_Completion]_vars
    /\ [][C15_AddedOnlyOnResult]_vars

\* A submit answered with an empty list, after an earlier submit had added
\* a drink: the message is shown, the drink is still the only one.
C15_Witness ==
    /\ request = [state |-> "fulfilled", value |-> <<>>]
    /\ ~smartIsLoading
    /\ error = CouldNotIdentify
    /\ Len(drinks) = 1
    /\ drinks[1].name = "pint"

\* C17: every drink in the store has volumeMl > 0 and abv >= 0 after any
\* sequence of text edits, preset presses and Add Drink presses in the
\* manual calculator.
C17_PositiveVolume ==
    \A i \in 1..Len(drinks) : drinks[i].volumeMl > 0 /\ drinks[i].abv >= 0

(***************************************************************************)
(* Decay between drinks and termination of the loop (specification Spec)   *)
(***************************************************************************)
NoDrinkIn(from, to) ==
    \A i \in 1..Len(drinks) : ~(drinks[i].timestamp > from /\ drinks[i].timestamp <= to)

\* A step over an interval without a drink: the new point is not above the
\* one before, and below it when the net before and the rate are positive.
C21_DrinkFreeStep ==
    (StepTaken /\ NoDrinkIn(currentTime, currentTime + TenMinutes)) =>
        LET before == dataPoints[Len(dataPoints)].bac
            after == dataPoints'[Len(dataPoints')].bac
        IN  /\ FLe(after, before)
            /\ (currentNetSD > 0 /\ ApplicableRate(currentTime) > 0) => FLt(after, before)

\* A single drink and both rates positive: every point after the first is
\* below the one before it while that one is positive, and never above it.
C21_SingleDrinkDecay ==
    (Len(drinks) = 1 /\ firstHourBurn > 0 /\ subsequentHourBurn > 0 /\ Len(dataPoints) >= 2) =>
        LET before == dataPoints[Len(dataPoints) - 1].bac
            after == dataPoints[Len(dataPoints)].bac
        IN  /\ FLe(after, before)
            /\ FLt(Zero, before) => FLt(after, before)

\* C21: a step whose interval (currentTime, nextTime] contains no drink
\* timestamp never raises bac: the new point's bac is <= the previous
\* point's, and strictly lower when the previous net and the applicable burn
\* rate are positive; so in a single-drink session with positive burn rates
\* bac decreases from the first point on until it is clamped at 0.
C21_NeverRises == []C21_SingleDrinkDecay /\ [][C21_DrinkFreeStep]_vars

\* Two drinks ninety minutes apart: a step between them, in the second hour,
\* has lowered a positive bac.
C21_Witness ==
    /\ pc = "loop"
    /\ Len(drinks) = 2
    /\ steps = 8
    /\ subsequentHourBurn > 0
    /\ NoDrinkIn(currentTime - TenMinutes, currentTime)
    /\ ~NoDrinkIn(currentTime, currentTime + TenMinutes)
    /\ FLt(dataPoints[9].bac, dataPoints[8].bac)
    /\ FLt(Zero, dataPoints[9].bac)

\* C22: for every non-empty drink list and every parameter setting the loop
\* ends after at most 288 iterations, so the series has at most 289 points,
\* and it has at least 3 points, the early stop not firing in the first
\* iteration.
C22_Between3And289Points ==
    NonEmpty =>
        /\ steps <= 288
        /\ Len(dataPoints) <= 289
        /\ pc = "loop" => Len(dataPoints) = steps + 1
        /\ pc \in {"memo", "render", "done"} => (Len(points) >= 3 /\ Len(points) <= 289)

\* The shortest series: a single drink without alcohol, stopped in the
\* second iteration.
C22_Witness ==
    /\ pc = "done"
    /\ Len(drinks) = 1
    /\ Len(points) = 3
    /\ points[3].time = drinks[1].timestamp + 2 * TenMinutes

(***************************************************************************)
(* The reported crossing and the peak (specification SpecAnalytics)        *)
(***************************************************************************)
NonProjectedCrossing ==
    /\ Analysed
    /\ Len(points) > 0
    /\ soberTimeInfo.status = "over"
    /\ HasTime
    /\ ~HasProjected

PeakTime == points[FirstMaxIndex(points)].time

\* C23: whenever the analytics reports a non-projected threshold crossing,
\* the series peaked strictly above 0.05 and the crossing point is strictly
\* later than the peak point.
C23_CrossingAfterPeak ==
    NonProjectedCrossing =>
        /\ FLt(Limit, MaxBac(points))
        /\ soberTimeInfo.time > PeakTime

\* C23 as amended: whenever the analytics reports a non-projected crossing,
\* the series peaked at or above 0.05 and the crossing point is the peak
\* point or a later one; it is the peak point itself exactly when the peak
\* equals 0.05, and strictly later when the peak is above 0.05.
C23_CrossingAtOrAfterPeak ==
    NonProjectedCrossing =>
        /\ FLe(Limit, MaxBac(points))
        /\ soberTimeInfo.time >= PeakTime
        /\ soberTimeInfo.time = PeakTime <=> FEq(MaxBac(points), Limit)
        /\ FLt(Limit, MaxBac(points)) => soberTimeInfo.time > PeakTime

\* A series that peaks at exactly 0.05 in its second point and falls
\* afterwards: the crossing reported is the peak point.
C23_Witness ==
    /\ Analysed
    /\ Len(points) = 3
    /\ points[1].bac = Frac(3, 100)
    /\ points[2].bac = Frac(5, 100)
    /\ points[3].bac = Frac(1, 100)
    /\ soberTimeInfo = [status |-> "over", peak |-> Frac(5, 100), time |-> points[2].time]

(***************************************************************************)
(* Properties of loading and clearing (specification SpecStore)            *)
(***************************************************************************)
SomeDrinkLeaves == \E id \in IdsOf(drinks) : id \notin IdsOf(drinks')

\* C24: a drink added while the initial load is still in progress is still
\* in the list after the load completes: under every interleaving of user
\* actions with the load, a drink leaves the list only through removeDrink
\* or clearSession.
C24_LeavesOnlyByRemoval == [][SomeDrinkLeaves => (RemoveDrink \/ ClearResolve)]_vars

\* C25: if the initial load fails, the value persisted under the storage key
\* is left as it was.
C25_FailedLoadKeepsStorage == [][LoadReject => storage' = storage]_vars

\* The text under the key is absent or the empty list.
NothingStored == storage = <<>> \/ storage = << <<>> >>

\* The step that starts clearSession leaves the list alone; the step that
\* ends it either empties the list, the stored list being gone, or (the
\* removal failed) leaves list and storage as they were.
C26_ClearStep ==
    /\ (clearPc = "idle" /\ clearPc' = "removing") => drinks' = drinks
    /\ (clearPc = "removing" /\ clearPc' = "idle") =>
          \/ drinks' = <<>> /\ NothingStored'
          \/ drinks' = drinks /\ storage' = storage
    /\ ClearReject => (drinks' = drinks /\ clearPc' = "idle")

\* C26: clearSession empties the in-memory list only after the removal from
\* storage has succeeded; if the removal fails, the list is unchanged and
\* clearSession ends normally.
C26_ClearAfterRemoval == [][C26_ClearStep]_vars

\* clearSession is waiting for the removal: the two drinks of the list are
\* still there, in memory and in storage.
C26_Witness ==
    /\ clearPc = "removing"
    /\ ~isLoading
    /\ Len(drinks) = 2
    /\ storage = <<drinks>>

====
